---- MODULE Spec2Model ----
(***************************************************************************)
(* A model of Midaxas Finance (src/Tracker.py): the JSON ledger store with *)
(* its atomic-replace save, the session's mutation handlers, and the pure   *)
(* aggregation functions.                                                   *)
(*                                                                          *)
(* Text is a sequence of one-character strings, so that strip(), lower()    *)
(* and strptime() are computed rather than assumed.  Amounts are whole      *)
(* numbers of units (Python floats in the source; rounding is not           *)
(* represented).  A file is a sequence of tokens: the structural tokens of  *)
(* the JSON text, one token per list item or object member, or a byte that  *)
(* is not valid UTF-8.  The record fields note and created_at are not       *)
(* represented: no modelled operation reads them.                           *)
(***************************************************************************)
EXTENDS Integers, Sequences, FiniteSets, TLC

VARIABLES
    fs,         \* the storage directory: file name -> file
    txs,        \* FinanceTrackerGUI.txs, the in-memory ledger
    settings,   \* FinanceTrackerGUI.settings
    pc,         \* where the session is
    sv,         \* the call of save_json_atomic in progress, or the one that failed
    clock,      \* the wall clock, in milliseconds
    faults,     \* failures and interruptions so far
    attempts,   \* PIN prompts shown by prompt_pin so far
    last,       \* the last handler, how it ended, and what was wrong with its input
    pre,        \* memory when the handler that is saving, or failed to save, started
    inp,        \* the argument the pure function was applied to, or the entry of a prompt
    out,        \* what the pure function returned
    peer        \* a second session on the same storage, while the first one runs

vars == <<fs, txs, settings, pc, sv, clock, faults, attempts, last, pre, inp, out, peer>>

-----------------------------------------------------------------------------
(* Bounds of the model *)

MaxTx == 2          \* add_tx is offered while the ledger is shorter than this

MaxClock == 1       \* the clock is read while it is below this

MaxFaults == 1      \* failures and interruptions injected in one behaviour

MaxLen == 3         \* longest record sequence given to a pure function

MaxNet == 15000     \* largest net given to rating_from_net

-----------------------------------------------------------------------------
(* Text *)

UPPERS == <<"A","B","C","D","E","F","G","H","I","J","K","L","M",
            "N","O","P","Q","R","S","T","U","V","W","X","Y","Z">>

LOWERS == <<"a","b","c","d","e","f","g","h","i","j","k","l","m",
            "n","o","p","q","r","s","t","u","v","w","x","y","z">>

lower_char(c) ==
    IF \E i \in 1..26 : UPPERS[i] = c
    THEN LOWERS[CHOOSE i \in 1..26 : UPPERS[i] = c]
    ELSE c

\* str.lower()
lower(s) == [i \in 1..Len(s) |-> lower_char(s[i])]

RECURSIVE lstrip(_)
lstrip(s) == IF s # <<>> /\ Head(s) = " " THEN lstrip(Tail(s)) ELSE s

RECURSIVE rstrip(_)
rstrip(s) ==
    IF s # <<>> /\ s[Len(s)] = " " THEN rstrip(SubSeq(s, 1, Len(s) - 1)) ELSE s

\* str.strip()
strip(s) == rstrip(lstrip(s))

DIGITS == <<"0","1","2","3","4","5","6","7","8","9">>

IsDigit(c) == \E i \in 1..10 : DIGITS[i] = c

DigitVal(c) == (CHOOSE i \in 1..10 : DIGITS[i] = c) - 1

AllDigits(s) == \A i \in 1..Len(s) : IsDigit(s[i])

\* int() of a run of digits
RECURSIVE int_of(_)
int_of(s) ==
    IF s = <<>> THEN 0
    ELSE 10 * int_of(SubSeq(s, 1, Len(s) - 1)) + DigitVal(s[Len(s)])

\* the fields of s between the occurrences of sep
RECURSIVE split(_, _)
split(s, sep) ==
    IF \A i \in 1..Len(s) : s[i] # sep THEN <<s>>
    ELSE LET k == CHOOSE i \in 1..Len(s) :
                      s[i] = sep /\ \A j \in 1..(i - 1) : s[j] # sep
         IN  <<SubSeq(s, 1, k - 1)>> \o split(SubSeq(s, k + 1, Len(s)), sep)

\* n written with at least w digits, zero-padded
RECURSIVE zfill(_, _)
zfill(n, w) ==
    IF w <= 1 /\ n < 10 THEN <<DIGITS[n + 1]>>
    ELSE zfill(n \div 10, w - 1) \o <<DIGITS[(n % 10) + 1]>>

S_income == <<"i","n","c","o","m","e">>

S_expense == <<"e","x","p","e","n","s","e">>

S_Uncategorized == <<"U","n","c","a","t","e","g","o","r","i","z","e","d">>

-----------------------------------------------------------------------------
(* Dates: datetime.strptime(d, "%Y-%m-%d").date().isoformat() *)

IsLeap(y) == (y % 4 = 0 /\ y % 100 # 0) \/ y % 400 = 0

DaysInMonth(y, m) ==
    IF m = 2 THEN (IF IsLeap(y) THEN 29 ELSE 28)
    ELSE IF m \in {4, 6, 9, 11} THEN 30 ELSE 31

\* %Y matches \d\d\d\d
MatchesY(f) == Len(f) = 4 /\ AllDigits(f)

\* %m matches 1[0-2]|0[1-9]|[1-9]
MatchesM(f) == Len(f) \in {1, 2} /\ AllDigits(f) /\ int_of(f) \in 1..12

\* %d matches 3[01]|[12]\d|0[1-9]|[1-9]| [1-9]
MatchesD(f) ==
    \/ Len(f) \in {1, 2} /\ AllDigits(f) /\ int_of(f) \in 1..31
    \/ Len(f) = 2 /\ f[1] = " " /\ IsDigit(f[2]) /\ DigitVal(f[2]) >= 1

DayOf(f) == IF f[1] = " " THEN DigitVal(f[2]) ELSE int_of(f)

\* [ok |-> FALSE] for ValueError, else the date's isoformat()
strptime_iso(d) ==
    LET f == split(d, "-") IN
    IF Len(f) # 3 \/ ~MatchesY(f[1]) \/ ~MatchesM(f[2]) \/ ~MatchesD(f[3])
    THEN [ok |-> FALSE, iso |-> <<>>]
    ELSE LET y == int_of(f[1])
             m == int_of(f[2])
             dd == DayOf(f[3])
         IN  IF y < 1 \/ dd > DaysInMonth(y, m)
             THEN [ok |-> FALSE, iso |-> <<>>]
             ELSE [ok |-> TRUE,
                   iso |-> zfill(y, 4) \o <<"-">> \o zfill(m, 2) \o <<"-">> \o zfill(dd, 2)]

\* date.today().isoformat()
Today == <<"2","0","2","4","-","0","3","-","1","5">>

-----------------------------------------------------------------------------
(* Files and JSON *)

DATA_FILE == "transactions.json"

SETTINGS_FILE == "settings.json"

Paths == {DATA_FILE, SETTINGS_FILE}

\* the name tempfile.mkstemp returns; temporary files abandoned by earlier
\* saves are not represented, nothing reads them
TMP_FILE == ".tmp"

Names == Paths \cup {TMP_FILE}

NoFile == [exists |-> FALSE, bytes |-> <<>>]

File(b) == [exists |-> TRUE, bytes |-> b]

\* a byte that is not valid UTF-8
BadByte == [t |-> "\\xff"]

\* Python's None, and the empty dict
None == <<"None">>

EmptyDict == <<>>

\* the truth value of a value that is None or a str
truthy(pin_hash) == pin_hash # None /\ pin_hash # <<>>

\* json.dump of a list of records
dump_list(l) ==
    <<[t |-> "["]>> \o [i \in 1..Len(l) |-> [t |-> "item", v |-> l[i]]] \o <<[t |-> "]"]>>

\* json.dump of the settings object
dump_dict(s) ==
    <<[t |-> "{"], [t |-> "pin_hash", v |-> s.pin_hash],
      [t |-> "budgets", v |-> s.budgets], [t |-> "}"]>>

IsListText(b) ==
    /\ Len(b) >= 2
    /\ b[1] = [t |-> "["]
    /\ b[Len(b)] = [t |-> "]"]
    /\ \A i \in 2..(Len(b) - 1) : b[i].t = "item"

IsDictText(b) ==
    /\ Len(b) = 4
    /\ b[1] = [t |-> "{"]
    /\ b[2].t = "pin_hash"
    /\ b[3].t = "budgets"
    /\ b[4] = [t |-> "}"]

\* json.load(f) on a text-mode file opened with encoding="utf-8": f.read()
\* decodes the whole file first, then the text is parsed
json_load(b) ==
    IF \E i \in 1..Len(b) : b[i] = BadByte
    THEN [err |-> "UnicodeDecodeError", v |-> <<>>]
    ELSE IF IsListText(b)
    THEN [err |-> "none", v |-> [i \in 1..(Len(b) - 2) |-> b[i + 1].v]]
    ELSE IF IsDictText(b)
    THEN [err |-> "none", v |-> [pin_hash |-> b[2].v, budgets |-> b[3].v]]
    ELSE [err |-> "JSONDecodeError", v |-> <<>>]

\* load_json(path, default): only FileNotFoundError and JSONDecodeError are caught
load_json(f, default) ==
    IF ~f.exists THEN [raised |-> FALSE, v |-> default]
    ELSE LET r == json_load(f.bytes) IN
         IF r.err = "none" THEN [raised |-> FALSE, v |-> r.v]
         ELSE IF r.err = "JSONDecodeError" THEN [raised |-> FALSE, v |-> default]
         ELSE [raised |-> TRUE, v |-> default]

DefaultSettings == [pin_hash |-> None, budgets |-> EmptyDict]

load_transactions(d) == load_json(d[DATA_FILE], <<>>)

load_settings(d) == load_json(d[SETTINGS_FILE], DefaultSettings)

\* hashlib.sha256(pin).hexdigest(): injective on the PINs of the model
hash_pin(pin) == <<"sha256">> \o pin

\* a save of the ledger that keeps the records the file holds and memory
\* does not
Encoded_Merged(path, l, s) ==
    IF path = DATA_FILE
    THEN LET on_disk == load_transactions(fs).v
             Absent(t) == \A k \in 1..Len(l) : l[k] # t
         IN  dump_list(SelectSeq(on_disk, Absent) \o l)
    ELSE dump_dict(s)

\* the text save_json(path, data) is asked to write
Encoded(path, l, s) == IF path = DATA_FILE THEN dump_list(l) ELSE dump_dict(s)

-----------------------------------------------------------------------------
(* Aggregation: totals *)

\* JSON values an amount field can hold
Num(n) == [k |-> "num", n |-> n]

Str(s) == [k |-> "str", s |-> s]

Null == [k |-> "null"]

\* float(v): a number as it is, a string of digits as its value; ok is FALSE
\* for the ValueError of another string and the TypeError of None
float_of(v) ==
    IF v.k = "num" THEN [ok |-> TRUE, x |-> v.n]
    ELSE IF v.k = "str" /\ strip(v.s) # <<>> /\ AllDigits(strip(v.s))
    THEN [ok |-> TRUE, x |-> int_of(strip(v.s))]
    ELSE [ok |-> FALSE, x |-> 0]

\* a comparison of types that ignores case
TypeIs_AnyCase(t, name) == "type" \in DOMAIN t /\ lower(t.type) = name

\* t.get("type") == name
TypeIs(t, name) == "type" \in DOMAIN t /\ t.type = name

\* t.get("amount", 0.0)
AmountField(t) == IF "amount" \in DOMAIN t THEN t.amount ELSE Num(0)

\* sum(float(t.get("amount", 0.0)) for t in txs if t.get("type") == name),
\* from the left; float() raising ends it
RECURSIVE sum_amounts(_, _, _)
sum_amounts(l, name, acc) ==
    IF l = <<>> THEN [raised |-> FALSE, x |-> acc]
    ELSE IF ~TypeIs(Head(l), name) THEN sum_amounts(Tail(l), name, acc)
    ELSE IF ~float_of(AmountField(Head(l))).ok THEN [raised |-> TRUE, x |-> 0]
    ELSE sum_amounts(Tail(l), name, acc + float_of(AmountField(Head(l))).x)

NotCalled == [called |-> FALSE]

TotalsRaised == [called |-> TRUE, raised |-> TRUE, income |-> 0, expenses |-> 0, net |-> 0]

totals(l) ==
    LET income == sum_amounts(l, S_income, 0) IN
    IF income.raised THEN TotalsRaised
    ELSE LET expenses == sum_amounts(l, S_expense, 0) IN
         IF expenses.raised THEN TotalsRaised
         ELSE [called |-> TRUE, raised |-> FALSE, income |-> income.x,
               expenses |-> expenses.x, net |-> income.x - expenses.x]

-----------------------------------------------------------------------------
(* Aggregation: totals_by_category *)

\* ord(c), for the characters in use
ord(c) ==
    IF c = " " THEN 32
    ELSE IF c = "-" THEN 45
    ELSE IF IsDigit(c) THEN 48 + DigitVal(c)
    ELSE IF \E i \in 1..26 : UPPERS[i] = c
    THEN 64 + (CHOOSE i \in 1..26 : UPPERS[i] = c)
    ELSE 96 + (CHOOSE i \in 1..26 : LOWERS[i] = c)

\* a < b on str: by code point, a proper prefix first
RECURSIVE str_lt(_, _)
str_lt(a, b) ==
    IF b = <<>> THEN FALSE
    ELSE IF a = <<>> THEN TRUE
    ELSE IF Head(a) = Head(b) THEN str_lt(Tail(a), Tail(b))
    ELSE ord(Head(a)) < ord(Head(b))

\* t.get("category", "Uncategorized")
CategoryField(t) == IF "category" \in DOMAIN t THEN t.category ELSE S_Uncategorized

\* try: amt = float(t.get("amount", 0.0)) except Exception: amt = 0.0
amt_of(t) ==
    IF float_of(AmountField(t)).ok THEN float_of(AmountField(t)).x ELSE 0

\* a dict that adds to the key equal to cat when case is ignored
DictAdd_FoldCase(items, cat, amt) ==
    IF \E i \in 1..Len(items) : lower(items[i].k) = lower(cat)
    THEN [i \in 1..Len(items) |->
             IF lower(items[i].k) = lower(cat)
             THEN [k |-> items[i].k, v |-> items[i].v + amt]
             ELSE items[i]]
    ELSE Append(items, [k |-> cat, v |-> amt])

\* out[cat] = out.get(cat, 0.0) + amt; the dict is its items in insertion order
DictAdd(items, cat, amt) ==
    IF \E i \in 1..Len(items) : items[i].k = cat
    THEN [i \in 1..Len(items) |->
             IF items[i].k = cat THEN [k |-> cat, v |-> items[i].v + amt] ELSE items[i]]
    ELSE Append(items, [k |-> cat, v |-> amt])

\* the loop of totals_by_category: a record of another type is skipped when
\* ttype is given
RECURSIVE by_category(_, _, _)
by_category(l, ttype, items) ==
    IF l = <<>> THEN items
    ELSE IF truthy(ttype) /\ ~TypeIs(Head(l), ttype)
    THEN by_category(Tail(l), ttype, items)
    ELSE by_category(Tail(l), ttype,
                     DictAdd(items, CategoryField(Head(l)), amt_of(Head(l))))

\* an order of the items that compares the names as they are written
KeyLess_CaseSensitive(a, b) == a.v > b.v \/ (a.v = b.v /\ str_lt(a.k, b.k))

\* key=lambda kv: (-kv[1], kv[0].lower()): the key of a is less than that of b
KeyLess(a, b) == a.v > b.v \/ (a.v = b.v /\ str_lt(lower(a.k), lower(b.k)))

\* x placed in the sorted s after every item whose key is not greater
Insert(s, x) ==
    LET n == Cardinality({i \in 1..Len(s) : ~KeyLess(x, s[i])})
    IN  SubSeq(s, 1, n) \o <<x>> \o SubSeq(s, n + 1, Len(s))

\* sorted(out.items(), key=...): stable
RECURSIVE sorted(_)
sorted(items) ==
    IF items = <<>> THEN <<>>
    ELSE Insert(sorted(SubSeq(items, 1, Len(items) - 1)), items[Len(items)])

\* the dict returned, as its items in iteration order
totals_by_category(l, ttype) ==
    [called |-> TRUE, items |-> sorted(by_category(l, ttype, <<>>))]

-----------------------------------------------------------------------------
(* filter_month *)

\* a prefix written without padding the month, and one without the last hyphen
prefix_Unpadded(year, month) == zfill(year, 4) \o <<"-">> \o zfill(month, 1) \o <<"-">>

prefix_NoHyphen(year, month) == zfill(year, 4) \o <<"-">> \o zfill(month, 2)

\* f"{year:04d}-{month:02d}-"
prefix(year, month) == zfill(year, 4) \o <<"-">> \o zfill(month, 2) \o <<"-">>

\* str(t.get("date", ""))
DateField(t) == IF "date" \in DOMAIN t THEN t.date ELSE <<>>

\* s.startswith(p)
startswith(s, p) == Len(s) >= Len(p) /\ SubSeq(s, 1, Len(p)) = p

\* [t for t in txs if str(t.get("date", "")).startswith(prefix)]
filter_month(l, year, month) ==
    LET Test(t) == startswith(DateField(t), prefix(year, month))
    IN  [called |-> TRUE, v |-> SelectSeq(l, Test)]

-----------------------------------------------------------------------------
(* rating_from_net *)

\* a count of points that gives a threshold's point from the threshold on, and
\* one whose last step is worth a single point
points_of_Inclusive(net_savings) ==
    (IF net_savings >= 0 THEN 1 ELSE 0) + (IF net_savings >= 100 THEN 1 ELSE 0)
    + (IF net_savings >= 500 THEN 1 ELSE 0) + (IF net_savings >= 1000 THEN 1 ELSE 0)
    + (IF net_savings >= 10000 THEN 6 ELSE 0)

points_of_Even(net_savings) ==
    (IF net_savings > 0 THEN 1 ELSE 0) + (IF net_savings > 100 THEN 1 ELSE 0)
    + (IF net_savings > 500 THEN 1 ELSE 0) + (IF net_savings > 1000 THEN 1 ELSE 0)
    + (IF net_savings > 10000 THEN 1 ELSE 0)

\* points after the five if statements
points_of(net_savings) ==
    (IF net_savings > 0 THEN 1 ELSE 0) + (IF net_savings > 100 THEN 1 ELSE 0)
    + (IF net_savings > 500 THEN 1 ELSE 0) + (IF net_savings > 1000 THEN 1 ELSE 0)
    + (IF net_savings > 10000 THEN 6 ELSE 0)

\* if points == 10 ... elif points >= 5 ... else
label_of(points) ==
    IF points = 10 THEN "Perfect" ELSE IF points >= 5 THEN "Average" ELSE "Poor"

rating_from_net(net_savings) ==
    [called |-> TRUE, points |-> points_of(net_savings),
     label |-> label_of(points_of(net_savings))]

-----------------------------------------------------------------------------
(* refresh_dashboard: the rating and the budget warnings *)

\* try: limit_val = float(limit) except Exception: limit_val = 0.0
limit_of(limit) == IF float_of(limit).ok THEN float_of(limit).x ELSE 0

\* spent.get(cat, 0.0)
dict_get(items, cat) ==
    IF \E i \in 1..Len(items) : items[i].k = cat
    THEN items[CHOOSE i \in 1..Len(items) : items[i].k = cat].v
    ELSE 0

\* a classification that warns only above 80 and above 100 percent
warning_of_Exclusive(used, limit_val) ==
    IF used * 100 > 100 * limit_val THEN "OVER"
    ELSE IF used * 100 > 80 * limit_val THEN "Near"
    ELSE "none"

\* pct = (used / limit_val) * 100.0, then pct >= 100 and pct >= 80; limit_val
\* is positive, so the comparisons are made on used * 100
warning_of(used, limit_val) ==
    IF used * 100 >= 100 * limit_val THEN "OVER"
    ELSE IF used * 100 >= 80 * limit_val THEN "Near"
    ELSE "none"

\* date.today().year, date.today().month
ThisYear == int_of(SubSeq(Today, 1, 4))

ThisMonth == int_of(SubSeq(Today, 6, 7))

\* refresh_dashboard up to the warnings label: totals and the rating of all
\* of the ledger, then a line for each budget that is near or over; warnings
\* maps each category that has a line to its kind
refresh_dashboard(l, budgets) ==
    IF totals(l).raised THEN [called |-> TRUE, raised |-> TRUE]
    ELSE LET month_txs == filter_month(l, ThisYear, ThisMonth).v
             spent == totals_by_category(month_txs, S_expense).items
             Kind(cat) == warning_of(dict_get(spent, cat), limit_of(budgets[cat]))
             lines == {cat \in DOMAIN budgets :
                          limit_of(budgets[cat]) > 0 /\ Kind(cat) # "none"}
         IN  [called |-> TRUE, raised |-> FALSE,
              label |-> rating_from_net(totals(l).net).label,
              warnings |-> [cat \in lines |-> Kind(cat)]]

-----------------------------------------------------------------------------
(* The session: construction *)

PIN_TRIES == 3

NoSave == [queue |-> <<>>, path |-> "none", old |-> NoFile, new |-> <<>>, rm |-> "none"]

NoLast == [op |-> "none", outcome |-> "none", bad |-> "none"]

NoPre == [txs |-> <<>>, settings |-> DefaultSettings]

\* there is no second session
NoPeer == [pc |-> "none"]

\* what a storage file can hold when the program is first started: nothing, a
\* text cut short, or bytes that are not UTF-8
InitFiles == {NoFile, File(<<[t |-> "["]>>), File(<<BadByte>>)}

SessionInit ==
    /\ \E d \in [Paths -> InitFiles] :
          fs = [n \in Names |-> IF n \in Paths THEN d[n] ELSE NoFile]
    /\ txs = <<>>
    /\ settings = DefaultSettings
    /\ pc = "start"
    /\ sv = NoSave
    /\ clock = 0
    /\ faults = 0
    /\ attempts = 0
    /\ last = NoLast
    /\ pre = NoPre
    /\ peer = NoPeer

\* __init__: self.settings = load_settings(); a stored PIN hash leads to prompt_pin
LoadSettings ==
    /\ pc = "start"
    /\ LET r == load_settings(fs) IN
       IF r.raised
       THEN pc' = "crashed" /\ UNCHANGED settings
       ELSE /\ settings' = r.v
            /\ pc' = IF truthy(r.v.pin_hash) THEN "prompt" ELSE "load"
    /\ UNCHANGED <<fs, txs, sv, clock, faults, attempts, last, pre, inp, out, peer>>

Pins == {<<"1">>, <<"2">>}

\* a prompt_pin whose loop does not end at the third wrong entry
PromptPin_Unbounded(pin, ok) ==
    /\ pc = "prompt"
    /\ attempts < PIN_TRIES + 1
    /\ pc' = IF ~ok THEN "exited"
             ELSE IF hash_pin(pin) = settings.pin_hash THEN "load"
             ELSE "prompt"
    /\ attempts' = attempts + 1
    /\ inp' = [pin |-> pin, ok |-> ok]
    /\ UNCHANGED <<fs, txs, settings, sv, clock, faults, last, pre, out, peer>>

\* one round of prompt_pin's loop: a dialog, then the comparison of the hashes;
\* inp keeps what the dialog returned
PromptPin(pin, ok) ==
    /\ pc = "prompt"
    /\ attempts < PIN_TRIES
    /\ pc' = IF ~ok THEN "exited"
             ELSE IF hash_pin(pin) = settings.pin_hash THEN "load"
             ELSE IF attempts + 1 = PIN_TRIES THEN "exited"
             ELSE "prompt"
    /\ attempts' = attempts + 1
    /\ inp' = [pin |-> pin, ok |-> ok]
    /\ UNCHANGED <<fs, txs, settings, sv, clock, faults, last, pre, out, peer>>

\* __init__: self.txs = load_transactions(), then the window is built; the
\* prompts of the start-up are over
LoadTransactions ==
    /\ pc = "load"
    /\ LET r == load_transactions(fs) IN
       IF r.raised
       THEN pc' = "crashed" /\ UNCHANGED txs
       ELSE txs' = r.v /\ pc' = "idle"
    /\ attempts' = 0
    /\ inp' = <<>>
    /\ UNCHANGED <<fs, settings, sv, clock, faults, last, pre, out, peer>>

-----------------------------------------------------------------------------
(* save_json_atomic, step by step *)

\* a save() that forgets the settings, and one that writes them first
SaveOrder_LedgerOnly == <<DATA_FILE>>

SaveOrder_SettingsFirst == <<SETTINGS_FILE, DATA_FILE>>

\* FinanceTrackerGUI.save: save_transactions(self.txs), then save_settings(self.settings)
SaveOrder == <<DATA_FILE, SETTINGS_FILE>>

\* a save that writes in place: the file written to is the target itself
TmpName_InPlace(path) == path

\* fd, tmp = tempfile.mkstemp(prefix=".tmp", dir=dirpath): the file written to
TmpName(path) == TMP_FILE

\* entering save_json_atomic(path, data) for the first path of the queue q
EnterSave(q, l, s, d) ==
    [queue |-> Tail(q), path |-> Head(q), old |-> d[Head(q)],
     new |-> Encoded(Head(q), l, s), rm |-> "none"]

\* the handler op has changed memory to l, s and calls self.save(); a temporary
\* file an earlier save abandoned is no longer represented
CallSave(op, bad, l, s) ==
    /\ txs' = l
    /\ settings' = s
    /\ sv' = EnterSave(SaveOrder, l, s, fs)
    /\ pc' = "mkstemp"
    /\ last' = [op |-> op, outcome |-> "saving", bad |-> bad]
    /\ pre' = [txs |-> txs, settings |-> settings]
    /\ fs' = [fs EXCEPT ![TMP_FILE] = NoFile]
    /\ UNCHANGED <<faults, attempts, inp, out, peer>>

\* the handler op returns without having changed anything
Return(op, bad, outcome) ==
    /\ last' = [op |-> op, outcome |-> outcome, bad |-> bad]
    /\ pre' = NoPre
    /\ UNCHANGED <<fs, txs, settings, pc, sv, faults, attempts, inp, out, peer>>

CanFail == faults < MaxFaults

\* an exception leaves save_json_atomic, save() and the handler
Raise ==
    /\ pc' = "idle"
    /\ last' = [last EXCEPT !.outcome = "raised"]

\* os.makedirs and tempfile.mkstemp give a fresh empty file
Mkstemp ==
    /\ pc = "mkstemp"
    /\ fs' = [fs EXCEPT ![TmpName(sv.path)] = File(<<>>)]
    /\ pc' = "write"
    /\ UNCHANGED <<txs, settings, sv, clock, faults, attempts, last, pre, inp, out, peer>>

\* os.makedirs or tempfile.mkstemp raises, before the try block
MkstempFails ==
    /\ pc = "mkstemp"
    /\ CanFail
    /\ faults' = faults + 1
    /\ Raise
    /\ UNCHANGED <<fs, txs, settings, sv, clock, attempts, pre, inp, out, peer>>

\* json.dump, f.flush, os.fsync and the close of the temporary file
WriteTmp ==
    /\ pc = "write"
    /\ fs' = [fs EXCEPT ![TmpName(sv.path)] = File(sv.new)]
    /\ pc' = "replace"
    /\ UNCHANGED <<txs, settings, sv, clock, faults, attempts, last, pre, inp, out, peer>>

\* one of them raises, with some of the text written
WriteTmpFails ==
    /\ pc = "write"
    /\ CanFail
    /\ faults' = faults + 1
    /\ \E k \in 0..Len(sv.new) :
          fs' = [fs EXCEPT ![TmpName(sv.path)] = File(SubSeq(sv.new, 1, k))]
    /\ pc' = "cleanup"
    /\ UNCHANGED <<txs, settings, sv, clock, attempts, last, pre, inp, out, peer>>

\* os.replace(src, dst) on the directory d
os_replace(d, src, dst) ==
    IF src = dst THEN d
    ELSE [n \in Names |-> IF n = dst THEN d[src] ELSE IF n = src THEN NoFile ELSE d[n]]

\* os.replace(tmp, path): the temporary file takes the place of the target in
\* one step.  save() goes on to the next file; after the last one the handler
\* returns.
Replace ==
    /\ pc = "replace"
    /\ fs' = os_replace(fs, TmpName(sv.path), sv.path)
    /\ IF sv.queue # <<>>
       THEN /\ sv' = EnterSave(sv.queue, txs, settings, fs')
            /\ pc' = "mkstemp"
            /\ UNCHANGED <<last, pre>>
       ELSE /\ sv' = NoSave
            /\ pc' = "idle"
            /\ last' = [last EXCEPT !.outcome = "ok"]
            /\ pre' = NoPre
    /\ UNCHANGED <<txs, settings, clock, faults, attempts, inp, out, peer>>

\* os.replace raises and leaves both files as they were
ReplaceFails ==
    /\ pc = "replace"
    /\ CanFail
    /\ faults' = faults + 1
    /\ pc' = "cleanup"
    /\ UNCHANGED <<fs, txs, settings, sv, clock, attempts, last, pre, inp, out, peer>>

\* a cleanup that never removes the file
os_remove_Forgotten(d, name, removed) == d

\* os.remove(name) on the directory d; removed is FALSE when it raises
os_remove(d, name, removed) == IF removed THEN [d EXCEPT ![name] = NoFile] ELSE d

\* except Exception: os.remove(tmp), whose own failure is ignored; then raise
Cleanup ==
    /\ pc = "cleanup"
    /\ \E removed \in BOOLEAN :
          /\ fs' = os_remove(fs, TmpName(sv.path), removed)
          /\ sv' = [sv EXCEPT !.rm = IF removed THEN "removed" ELSE "failed"]
    /\ Raise
    /\ UNCHANGED <<txs, settings, clock, faults, attempts, pre, inp, out, peer>>

InSave == pc \in {"mkstemp", "write", "replace", "cleanup"}

\* the process is interrupted inside save_json_atomic (killed, power lost); an
\* interrupted write leaves some of the text in the temporary file
Interrupt ==
    /\ InSave
    /\ CanFail
    /\ faults' = faults + 1
    /\ pc' = "killed"
    /\ IF pc = "write"
       THEN \E k \in 0..Len(sv.new) :
                fs' = [fs EXCEPT ![TmpName(sv.path)] = File(SubSeq(sv.new, 1, k))]
       ELSE UNCHANGED fs
    /\ txs' = <<>>
    /\ settings' = DefaultSettings
    /\ UNCHANGED <<sv, clock, attempts, last, pre, inp, out, peer>>

\* the program is started again
Restart ==
    /\ pc \in {"idle", "killed", "crashed", "exited"}
    /\ pc' = "start"
    /\ txs' = <<>>
    /\ settings' = DefaultSettings
    /\ sv' = NoSave
    /\ attempts' = 0
    /\ last' = NoLast
    /\ pre' = NoPre
    /\ inp' = <<>>
    /\ UNCHANGED <<fs, clock, faults, out, peer>>

-----------------------------------------------------------------------------
(* The session: handlers *)

S_Food == <<"F","o","o","d">>

T_Income == <<" ","I","n","c","o","m","e">>

D_2024_3_5 == <<"2","0","2","4","-","3","-","5">>

D_2024_02_30 == <<"2","0","2","4","-","0","2","-","3","0">>

\* what the user can enter in the Add form; bad says what is wrong with it
AddForms ==
    { [type |-> <<>>, date |-> <<>>, amount |-> 5, category |-> <<" ">>, bad |-> "none"],
      [type |-> T_Income, date |-> D_2024_3_5, amount |-> 7, category |-> S_Food,
       bad |-> "none"],
      [type |-> <<"b","a","d">>, date |-> <<>>, amount |-> 5, category |-> S_Food,
       bad |-> "type"],
      [type |-> <<>>, date |-> D_2024_02_30, amount |-> 5, category |-> S_Food,
       bad |-> "date"],
      [type |-> <<>>, date |-> <<>>, amount |-> 0, category |-> S_Food, bad |-> "amount"] }

\* ttype = self.cmb_type.text().strip().lower() or "expense"
TypeOf(text) == IF lower(strip(text)) = <<>> THEN S_expense ELSE lower(strip(text))

\* ttype in ("income", "expense")
TypeOk(ttype) == ttype \in {S_income, S_expense}

\* a form that checks the date and stores it as typed
DateOf_AsTyped(text) ==
    IF strip(text) = <<>> THEN [ok |-> TRUE, iso |-> Today]
    ELSE [ok |-> strptime_iso(strip(text)).ok, iso |-> strip(text)]

\* d = self.txt_date.text().strip(); today when empty, else strptime
DateOf(text) ==
    IF strip(text) = <<>> THEN [ok |-> TRUE, iso |-> Today] ELSE strptime_iso(strip(text))

\* a form that lets every amount through
AmountOk_Always(amount) == TRUE

\* not (amount <= 0)
AmountOk(amount) == ~(amount <= 0)

\* category = self.txt_category.text().strip() or "Uncategorized"
CategoryOf(text) == IF strip(text) = <<>> THEN S_Uncategorized ELSE strip(text)

\* the record add_tx builds; id is int(time.time() * 1000)
NewTx(now, d, ttype, amount, category) ==
    [id |-> Num(now), date |-> d, type |-> ttype, amount |-> Num(amount),
     category |-> category]

\* the clock readings add_tx can get: time does not run backwards, and two
\* readings can fall in the same millisecond
ClockReadings == {t \in {clock, clock + 1} : t <= MaxClock}

add_tx(f) ==
    /\ pc = "idle"
    /\ Len(txs) < MaxTx
    /\ IF ~TypeOk(TypeOf(f.type)) \/ ~DateOf(f.date).ok \/ ~AmountOk(f.amount)
       THEN Return("add_tx", f.bad, "rejected") /\ UNCHANGED clock
       ELSE \E now \in ClockReadings :
              /\ clock' = now
              /\ CallSave("add_tx", f.bad,
                          Append(txs, NewTx(now, DateOf(f.date).iso, TypeOf(f.type),
                                            f.amount, CategoryOf(f.category))),
                          settings)

\* int(t.get("id", -1)) of a stored record
IdOf(t) == IF "id" \in DOMAIN t THEN t.id.n ELSE -1

\* a deletion that stops at the first record with the id
WithoutId_FirstOnly(l, tx_id) ==
    IF \A i \in 1..Len(l) : IdOf(l[i]) # tx_id THEN l
    ELSE LET k == CHOOSE i \in 1..Len(l) :
                      IdOf(l[i]) = tx_id /\ \A j \in 1..(i - 1) : IdOf(l[j]) # tx_id
         IN  SubSeq(l, 1, k - 1) \o SubSeq(l, k + 1, Len(l))

\* [t for t in self.txs if int(t.get("id", -1)) != tx_id]
WithoutId(l, tx_id) == LET keep(t) == IdOf(t) # tx_id IN SelectSeq(l, keep)

\* selected_tx_id: int() of the id shown in the hidden column of the selected
\* row; None when no row is selected or the record shows no id.  The table
\* holds the ledger in an order of its own: row counts the records in the
\* order of the ledger, 0 is no selection.
selected_tx_id(l, row) ==
    IF row = 0 \/ "id" \notin DOMAIN l[row] THEN [ok |-> FALSE]
    ELSE [ok |-> TRUE, id |-> l[row].id.n]

\* row is the selected row of the history table, yes the answer to the
\* confirmation
delete_selected(row, yes) ==
    /\ pc = "idle"
    /\ LET tx_id == selected_tx_id(txs, row) IN
       IF ~tx_id.ok \/ ~yes
       THEN Return("delete_selected", "none", "declined")
       ELSE CallSave("delete_selected", "none", WithoutId(txs, tx_id.id), settings)
    /\ UNCHANGED clock

\* what the user can enter in the Budgets form
BudgetForms ==
    { [category |-> S_Food \o <<" ">>, amount |-> 100, bad |-> "none"],
      [category |-> <<" ">>, amount |-> 100, bad |-> "category"],
      [category |-> S_Food, amount |-> 0, bad |-> "amount"] }

\* budgets[cat] = amt
DictSet(d, key, val) ==
    [c \in (DOMAIN d) \cup {key} |-> IF c = key THEN val ELSE d[c]]

\* budgets.pop(cat)
DictPop(d, key) == [c \in (DOMAIN d) \ {key} |-> d[c]]

set_budget(f) ==
    /\ pc = "idle"
    /\ IF strip(f.category) = <<>> \/ ~AmountOk(f.amount)
       THEN Return("set_budget", f.bad, "rejected")
       ELSE CallSave("set_budget", f.bad, txs,
                     [settings EXCEPT
                         !.budgets = DictSet(settings.budgets, strip(f.category), f.amount)])
    /\ UNCHANGED clock

remove_budget(f) ==
    /\ pc = "idle"
    /\ IF strip(f.category) \in DOMAIN settings.budgets
       THEN CallSave("remove_budget", "none", txs,
                     [settings EXCEPT !.budgets = DictPop(settings.budgets, strip(f.category))])
       ELSE Return("remove_budget", "none", "declined")
    /\ UNCHANGED clock

\* the dialogs of set_pin: current PIN (asked when one is set), new PIN,
\* confirmation; okN is FALSE when dialog N is cancelled
PinForms ==
    { [old |-> <<"1">>, ok1 |-> TRUE, new1 |-> <<"1">>, ok2 |-> TRUE, new2 |-> <<"1">>,
       ok3 |-> TRUE],
      [old |-> <<"2">>, ok1 |-> TRUE, new1 |-> <<"1">>, ok2 |-> TRUE, new2 |-> <<"1">>,
       ok3 |-> TRUE],
      [old |-> <<"1">>, ok1 |-> TRUE, new1 |-> <<"1">>, ok2 |-> TRUE, new2 |-> <<"2">>,
       ok3 |-> TRUE],
      [old |-> <<"1">>, ok1 |-> FALSE, new1 |-> <<"1">>, ok2 |-> TRUE, new2 |-> <<"1">>,
       ok3 |-> TRUE],
      [old |-> <<"1">>, ok1 |-> TRUE, new1 |-> <<>>, ok2 |-> TRUE, new2 |-> <<"1">>,
       ok3 |-> TRUE],
      [old |-> <<"1">>, ok1 |-> TRUE, new1 |-> <<"1">>, ok2 |-> TRUE, new2 |-> <<"2">>,
       ok3 |-> FALSE] }

\* what is wrong with the entries of set_pin when the stored hash is h: the
\* current PIN, asked for and entered, is not the stored one; or both new
\* entries were made and differ
PinBad(f, h) ==
    IF truthy(h) /\ f.ok1 /\ hash_pin(f.old) # h THEN "pin"
    ELSE IF (truthy(h) => f.ok1) /\ f.ok2 /\ f.new1 # <<>> /\ f.ok3 /\ f.new1 # f.new2
    THEN "confirm"
    ELSE "none"

set_pin(f) ==
    /\ pc = "idle"
    /\ LET bad == PinBad(f, settings.pin_hash) IN
       IF truthy(settings.pin_hash) /\ ~f.ok1
       THEN Return("set_pin", bad, "declined")
       ELSE IF truthy(settings.pin_hash) /\ hash_pin(f.old) # settings.pin_hash
       THEN Return("set_pin", bad, "rejected")
       ELSE IF ~f.ok2 \/ f.new1 = <<>> \/ ~f.ok3
       THEN Return("set_pin", bad, "declined")
       ELSE IF f.new1 # f.new2
       THEN Return("set_pin", bad, "rejected")
       ELSE CallSave("set_pin", bad, txs, [settings EXCEPT !.pin_hash = hash_pin(f.new1)])
    /\ UNCHANGED clock

remove_pin(old, ok) ==
    /\ pc = "idle"
    /\ IF ~truthy(settings.pin_hash) \/ ~ok
       THEN Return("remove_pin", "none", "declined")
       ELSE IF hash_pin(old) # settings.pin_hash
       THEN Return("remove_pin", "pin", "rejected")
       ELSE CallSave("remove_pin", "none", txs, [settings EXCEPT !.pin_hash = None])
    /\ UNCHANGED clock

-----------------------------------------------------------------------------

Startup ==
    \/ LoadSettings
    \/ \E pin \in Pins, ok \in BOOLEAN : PromptPin(pin, ok)
    \/ LoadTransactions

LedgerHandler ==
    \/ \E f \in AddForms : add_tx(f)
    \/ \E row \in 0..Len(txs), yes \in BOOLEAN : delete_selected(row, yes)

BudgetHandler ==
    \/ \E f \in BudgetForms : set_budget(f)
    \/ \E f \in BudgetForms : remove_budget(f)

PinHandler ==
    \/ \E f \in PinForms : set_pin(f)
    \/ \E old \in Pins, ok \in BOOLEAN : remove_pin(old, ok)

Save == Mkstemp \/ WriteTmp \/ Replace

SaveFails == MkstempFails \/ WriteTmpFails \/ ReplaceFails \/ Cleanup

Init == SessionInit /\ inp = <<>> /\ out = NotCalled

\* sessions in which no storage operation fails
Next == Startup \/ LedgerHandler \/ BudgetHandler \/ PinHandler \/ Save \/ Restart

Spec == Init /\ [][Next]_vars

\* the entries made in the sessions whose storage fails: they are all valid
IncomeForms == {f \in AddForms : f.type = T_Income}

GoodBudgetForms == {f \in BudgetForms : f.bad = "none"}

\* sessions without a PIN in which storage operations fail and the process is
\* interrupted
FaultyNext ==
    \/ LoadSettings
    \/ LoadTransactions
    \/ \E f \in IncomeForms : add_tx(f)
    \/ \E row \in 1..Len(txs) : delete_selected(row, TRUE)
    \/ \E f \in GoodBudgetForms : set_budget(f)
    \/ \E f \in GoodBudgetForms : remove_budget(f)
    \/ Save
    \/ SaveFails
    \/ Interrupt
    \/ Restart

FaultySpec == Init /\ [][FaultyNext]_vars

-----------------------------------------------------------------------------
(* totals applied to record sequences *)

S_transfer == <<"t","r","a","n","s","f","e","r">>

\* records as a ledger file can hold them: with or without a type or an
\* amount, the amount a number, a string or null
TotalsRecords ==
    { [type |-> S_income, amount |-> Num(5)],
      [type |-> S_expense, amount |-> Num(3)],
      [type |-> S_transfer, amount |-> Num(7)],
      [type |-> <<"I">> \o Tail(S_income), amount |-> Num(2)],
      [type |-> S_income],
      [amount |-> Num(4)],
      [type |-> S_expense, amount |-> Str(<<"1","2">>)],
      [type |-> S_income, amount |-> Str(<<"a","b","c">>)],
      [type |-> S_expense, amount |-> Null] }

BoundedSeq(S, n) == UNION {[1..k -> S] : k \in 0..n}

TotalsInit ==
    /\ SessionInit
    /\ inp \in BoundedSeq(TotalsRecords, MaxLen)
    /\ out = NotCalled

CallTotals ==
    /\ ~out.called
    /\ out' = totals(inp)
    /\ UNCHANGED <<fs, txs, settings, pc, sv, clock, faults, attempts, last, pre, inp, peer>>

TotalsSpec == TotalsInit /\ [][CallTotals]_vars

-----------------------------------------------------------------------------
(* Two sessions on the same storage *)

\* the session that runs, as the record kept of a session that does not
Suspended ==
    [txs |-> txs, settings |-> settings, pc |-> pc, sv |-> sv, attempts |-> attempts,
     last |-> last, pre |-> pre, tmp |-> fs[TMP_FILE]]

\* the other session takes the next step.  There is no lock: this can happen
\* between any two steps.  mkstemp gives each session a temporary file of its
\* own; TMP_FILE is the one of the session that runs.
Switch ==
    /\ peer.pc # "none"
    /\ peer' = Suspended
    /\ txs' = peer.txs
    /\ settings' = peer.settings
    /\ pc' = peer.pc
    /\ sv' = peer.sv
    /\ attempts' = peer.attempts
    /\ last' = peer.last
    /\ pre' = peer.pre
    /\ fs' = [fs EXCEPT ![TMP_FILE] = peer.tmp]
    /\ UNCHANGED <<clock, faults, inp, out>>

\* two sessions have been started and neither has loaded anything yet
TwoInit ==
    /\ \E d \in [Paths -> InitFiles] :
          fs = [n \in Names |-> IF n \in Paths THEN d[n] ELSE NoFile]
    /\ txs = <<>>
    /\ settings = DefaultSettings
    /\ pc = "start"
    /\ sv = NoSave
    /\ clock = 0
    /\ faults = 0
    /\ attempts = 0
    /\ last = NoLast
    /\ pre = NoPre
    /\ inp = <<>>
    /\ out = NotCalled
    /\ peer = Suspended

\* each session loads once and then adds and deletes; no storage operation
\* fails
TwoNext ==
    \/ LoadSettings
    \/ LoadTransactions
    \/ \E f \in IncomeForms : add_tx(f)
    \/ \E row \in 1..Len(txs) : delete_selected(row, TRUE)
    \/ Save
    \/ Switch

TwoSessionSpec == TwoInit /\ [][TwoNext]_vars

-----------------------------------------------------------------------------
(* The pure functions applied to records a ledger file can hold *)

\* no session is running
NoSession ==
    /\ fs = [n \in Names |-> NoFile]
    /\ txs = <<>>
    /\ settings = DefaultSettings
    /\ pc = "none"
    /\ sv = NoSave
    /\ clock = 0
    /\ faults = 0
    /\ attempts = 0
    /\ last = NoLast
    /\ pre = NoPre
    /\ peer = NoPeer

S_food == lower(S_Food)

S_Rent == <<"R","e","n","t">>

CategoryRecords ==
    { [type |-> S_expense, category |-> S_Food, amount |-> Num(5)],
      [type |-> S_expense, category |-> S_food, amount |-> Num(5)],
      [type |-> S_expense, category |-> S_Rent, amount |-> Num(5)],
      [type |-> S_income, category |-> S_Food, amount |-> Num(8)],
      [type |-> S_expense, amount |-> Num(3)],
      [type |-> S_expense, category |-> <<>>, amount |-> Num(2)],
      [type |-> S_expense, category |-> S_Rent, amount |-> Str(<<"a","b","c">>)],
      [type |-> S_expense, category |-> S_Uncategorized, amount |-> Num(1)] }

\* the ttype argument: not given, empty, or a type
TypeFilters == {None, <<>>, S_expense, S_income}

CategoryInit ==
    /\ NoSession
    /\ inp \in [l : BoundedSeq(CategoryRecords, MaxLen), ttype : TypeFilters]
    /\ out = NotCalled

CallTotalsByCategory ==
    /\ ~out.called
    /\ out' = totals_by_category(inp.l, inp.ttype)
    /\ UNCHANGED <<fs, txs, settings, pc, sv, clock, faults, attempts, last, pre, inp, peer>>

CategorySpec == CategoryInit /\ [][CallTotalsByCategory]_vars

D_2024_03_05 == <<"2","0","2","4","-","0","3","-","0","5">>

D_2024_03_15 == <<"2","0","2","4","-","0","3","-","1","5">>

D_2024_3_01 == <<"2","0","2","4","-","3","-","0","1">>

D_2024_03 == <<"2","0","2","4","-","0","3">>

D_2024_03_ == <<"2","0","2","4","-","0","3","-">>

D_2024_12_31 == <<"2","0","2","4","-","1","2","-","3","1">>

D_2023_03_05 == <<"2","0","2","3","-","0","3","-","0","5">>

\* records with the dates a ledger file can hold: well formed, not padded, cut
\* short, absent
MonthRecords ==
    { [date |-> D_2024_03_05, amount |-> Num(5)],
      [date |-> D_2024_03_15, amount |-> Num(3)],
      [date |-> D_2024_3_01, amount |-> Num(1)],
      [date |-> D_2024_03, amount |-> Num(2)],
      [date |-> D_2024_03_, amount |-> Num(4)],
      [date |-> D_2024_12_31, amount |-> Num(6)],
      [date |-> D_2023_03_05, amount |-> Num(7)],
      [amount |-> Num(8)] }

MonthInit ==
    /\ NoSession
    /\ inp \in [l : BoundedSeq(MonthRecords, MaxLen), year : {2023, 2024}, month : {3, 12}]
    /\ out = NotCalled

CallFilterMonth ==
    /\ ~out.called
    /\ out' = filter_month(inp.l, inp.year, inp.month)
    /\ UNCHANGED <<fs, txs, settings, pc, sv, clock, faults, attempts, last, pre, inp, peer>>

MonthSpec == MonthInit /\ [][CallFilterMonth]_vars

\* nets from a loss up to MaxNet: the multiples of 50, their neighbours on
\* both sides, and the values between 100 and 200
Nets ==
    {n \in -100..MaxNet : n % 50 \in {0, 1, 49}} \cup 100..200

RatingInit ==
    /\ NoSession
    /\ inp \in Nets
    /\ out = NotCalled

CallRatingFromNet ==
    /\ ~out.called
    /\ out' = rating_from_net(inp)
    /\ UNCHANGED <<fs, txs, settings, pc, sv, clock, faults, attempts, last, pre, inp, peer>>

RatingSpec == RatingInit /\ [][CallRatingFromNet]_vars

\* an expense of the current month (2024-03) in the category Food
Spent(amount) ==
    [type |-> S_expense, category |-> S_Food, date |-> D_2024_03_05, amount |-> Num(amount)]

\* ledger records as add_tx makes them
LedgerRecords ==
    { Spent(50), Spent(35), Spent(70), Spent(30), Spent(29),
      [Spent(120) EXCEPT !.category = S_food],
      [Spent(120) EXCEPT !.type = S_income],
      [Spent(120) EXCEPT !.date = D_2023_03_05],
      [Spent(90) EXCEPT !.category = S_Rent, !.date = D_2024_03_15] }

\* the budgets a settings file can hold: limits set in the form, and limits
\* that are zero, negative, text or null
BudgetDicts ==
    { EmptyDict,
      [c \in {S_Food} |-> Num(100)],
      [c \in {S_Food, S_Rent} |-> Num(100)],
      [c \in {S_Rent} |-> Num(100)],
      [c \in {S_Food} |-> Str(<<"1","0","0">>)],
      [c \in {S_Food} |-> Num(0)],
      [c \in {S_Food} |-> Num(-100)],
      [c \in {S_Food} |-> Str(<<"a","b","c">>)],
      [c \in {S_Food, S_Rent} |-> IF c = S_Food THEN Null ELSE Num(100)] }

DashboardInit ==
    /\ NoSession
    /\ inp \in [l : BoundedSeq(LedgerRecords, MaxLen), budgets : BudgetDicts]
    /\ out = NotCalled

CallRefreshDashboard ==
    /\ ~out.called
    /\ out' = refresh_dashboard(inp.l, inp.budgets)
    /\ UNCHANGED <<fs, txs, settings, pc, sv, clock, faults, attempts, last, pre, inp, peer>>

DashboardSpec == DashboardInit /\ [][CallRefreshDashboard]_vars

-----------------------------------------------------------------------------
(* Properties *)

\* what memory holds for the file at path p
Data(p) == IF p = DATA_FILE THEN txs ELSE settings

\* the file holds the complete JSON text of the value v
Holds(f, v) == f.exists /\ json_load(f.bytes) = [err |-> "none", v |-> v]

Raised == pc = "idle" /\ last.outcome = "raised"

Returned == pc = "idle" /\ last.outcome = "ok"

\* C1: while save_json_atomic runs, and after it was interrupted, the target
\* holds what it held when the call began; the only step that changes a
\* storage file is the rename, and it leaves the complete text of the value
\* being saved.
C1_AtomicReplace ==
    /\ []((InSave \/ pc = "killed") => fs[sv.path] = sv.old)
    /\ [][\A p \in Paths :
            fs'[p] # fs[p] => pc = "replace" /\ p = sv.path /\ Holds(fs'[p], Data(p))]_vars

\* a save was interrupted with part of the text in the temporary file, and
\* the target still holds the complete text saved before
C1_Witness ==
    /\ pc = "killed"
    /\ fs[TMP_FILE].exists
    /\ json_load(fs[TMP_FILE].bytes).err = "JSONDecodeError"
    /\ sv.old.exists
    /\ json_load(sv.old.bytes).err = "none"
    /\ sv.old.bytes # sv.new
    /\ fs[sv.path] = sv.old

\* C2 as stated: after a failed save no temporary file remains and the target
\* is untouched.
C2_NoTempAfterFailure == Raised => ~fs[TMP_FILE].exists /\ fs[sv.path] = sv.old

\* C2: after a failed save the target is untouched, and the temporary file
\* remains exactly when its removal failed.
C2_TempRemovedUnlessRemoveFails ==
    Raised => fs[sv.path] = sv.old /\ (fs[TMP_FILE].exists <=> sv.rm = "failed")

\* a write over an existing file failed and the temporary file was removed
C2_Witness ==
    /\ Raised
    /\ sv.rm = "removed"
    /\ ~fs[TMP_FILE].exists
    /\ sv.old.exists
    /\ sv.old.bytes # sv.new

MissingOrMalformed(f) == ~f.exists \/ json_load(f.bytes).err # "none"

\* C3: a missing or unparseable file loads as the default, without raising.
C3_LoadsNeverRaise ==
    /\ MissingOrMalformed(fs[DATA_FILE]) =>
          load_transactions(fs) = [raised |-> FALSE, v |-> <<>>]
    /\ MissingOrMalformed(fs[SETTINGS_FILE]) =>
          load_settings(fs) = [raised |-> FALSE, v |-> DefaultSettings]
    /\ pc # "crashed"

\* C4: when a handler that saved has returned, each file holds what memory
\* holds.
C4_PersistedOnReturn ==
    Returned => Holds(fs[DATA_FILE], txs) /\ Holds(fs[SETTINGS_FILE], settings)

\* a handler returned with a ledger, a budget and a PIN in memory
C4_Witness ==
    /\ Returned
    /\ txs # <<>>
    /\ truthy(settings.pin_hash)
    /\ settings.budgets # EmptyDict

\* C5: a handler given an invalid entry rejects it and leaves memory and the
\* files as they were, without saving.
C5_RejectionChangesNothing ==
    [][(pc = "idle" /\ last'.bad # "none") =>
          /\ last'.outcome = "rejected"
          /\ pc' = "idle"
          /\ fs' = fs
          /\ txs' = txs
          /\ settings' = settings]_vars

\* an amount of zero was rejected with a ledger in memory and on disk
C5_Witness ==
    /\ last = [op |-> "add_tx", outcome |-> "rejected", bad |-> "amount"]
    /\ txs # <<>>
    /\ Holds(fs[DATA_FILE], txs)

\* the handler's change is in memory
ChangeInMemory ==
    CASE last.op = "add_tx" ->
            /\ Len(txs) = Len(pre.txs) + 1
            /\ SubSeq(txs, 1, Len(pre.txs)) = pre.txs
            /\ settings = pre.settings
      [] last.op = "delete_selected" ->
            Len(txs) < Len(pre.txs) /\ settings = pre.settings
      [] last.op = "set_budget" ->
            /\ txs = pre.txs
            /\ S_Food \in DOMAIN settings.budgets
            /\ settings.pin_hash = pre.settings.pin_hash
      [] last.op = "remove_budget" ->
            /\ txs = pre.txs
            /\ S_Food \notin DOMAIN settings.budgets
            /\ S_Food \in DOMAIN pre.settings.budgets
      [] OTHER -> FALSE

\* what the files load as
Persisted == [txs |-> load_transactions(fs).v, settings |-> load_settings(fs).v]

\* C6 as stated: after a failed save the file is intact, the change is in
\* memory, and the files hold the state from before the change.
C6_DiffersByThatChange ==
    Raised => fs[sv.path] = sv.old /\ ChangeInMemory /\ Persisted = pre

\* C6: after a failed save the file whose write failed is intact and the
\* change is in memory; a failed ledger write leaves the settings unwritten,
\* a failed settings write comes after the ledger file already holds the new
\* ledger; a later save that succeeds brings the files level with memory.
C6_FailedSaveKeepsChange ==
    /\ Raised =>
          /\ fs[sv.path] = sv.old
          /\ ChangeInMemory
          /\ sv.path = DATA_FILE => sv.queue = <<SETTINGS_FILE>>
          /\ sv.path = SETTINGS_FILE => sv.queue = <<>> /\ Holds(fs[DATA_FILE], txs)
    /\ Returned => Holds(fs[DATA_FILE], txs) /\ Holds(fs[SETTINGS_FILE], settings)

\* the settings write of add_tx failed after the ledger was written
C6_Witness ==
    /\ Raised
    /\ last.op = "add_tx"
    /\ sv.path = SETTINGS_FILE
    /\ Holds(fs[DATA_FILE], txs)
    /\ txs # pre.txs

\* a calendar date written YYYY-MM-DD
IsIsoDate(d) ==
    /\ Len(d) = 10
    /\ d[5] = "-"
    /\ d[8] = "-"
    /\ \A i \in {1, 2, 3, 4, 6, 7, 9, 10} : IsDigit(d[i])
    /\ LET y == int_of(SubSeq(d, 1, 4))
           m == int_of(SubSeq(d, 6, 7))
           dd == int_of(SubSeq(d, 9, 10))
       IN  y >= 1 /\ m \in 1..12 /\ dd >= 1 /\ dd <= DaysInMonth(y, m)

RecordOk(t) ==
    /\ DOMAIN t = {"id", "date", "type", "amount", "category"}
    /\ t.amount.k = "num"
    /\ t.amount.n > 0
    /\ t.type \in {S_income, S_expense}
    /\ IsIsoDate(t.date)
    /\ t.category # <<>>

C8_UniqueIds ==
    \A i, j \in 1..Len(txs) : i # j => IdOf(txs[i]) # IdOf(txs[j])

\* the records of l whose type is name
Matching(l, name) == {i \in 1..Len(l) : "type" \in DOMAIN l[i] /\ l[i].type = name}

\* the amount of a record as a number: 0 when it is missing or not numeric
AmountValue(t) == IF "amount" \in DOMAIN t THEN float_of(t.amount).x ELSE 0

RECURSIVE SumOver(_, _)
SumOver(l, I) ==
    IF I = {} THEN 0
    ELSE LET i == CHOOSE j \in I : TRUE IN AmountValue(l[i]) + SumOver(l, I \ {i})

\* every income or expense record has an amount float() accepts, or none
Coercible(l) ==
    \A i \in Matching(l, S_income) \cup Matching(l, S_expense) :
        "amount" \in DOMAIN l[i] => float_of(l[i].amount).ok

\* C9: totals returns the sum of the income amounts, the sum of the expense
\* amounts and their difference; records of another type count for neither;
\* an empty sequence gives three zeros.
C9_TotalsAreSums ==
    out.called =>
        /\ Coercible(inp) =>
              /\ ~out.raised
              /\ out.income = SumOver(inp, Matching(inp, S_income))
              /\ out.expenses = SumOver(inp, Matching(inp, S_expense))
              /\ out.net = out.income - out.expenses
        /\ inp = <<>> => out.income = 0 /\ out.expenses = 0 /\ out.net = 0

\* totals was applied to an income, an expense and a record of another type
C9_Witness ==
    /\ out.called
    /\ ~out.raised
    /\ out.income > 0
    /\ out.expenses > 0
    /\ out.net # 0
    /\ \E i \in 1..Len(inp) :
          "type" \in DOMAIN inp[i] /\ inp[i].type \notin {S_income, S_expense}

\* C10: totals never raises; an amount that is missing or not numeric counts
\* as 0.
C10_TotalsNeverRaises ==
    out.called =>
        /\ ~out.raised
        /\ out.income = SumOver(inp, Matching(inp, S_income))
        /\ out.expenses = SumOver(inp, Matching(inp, S_expense))

\* the records of l that pass the type filter
Passing(l, ttype) ==
    {i \in 1..Len(l) :
        ttype \in {None, <<>>} \/ ("type" \in DOMAIN l[i] /\ l[i].type = ttype)}

\* the category label of a record; a record without the field has the label
\* Uncategorized
Label(t) == IF "category" \in DOMAIN t THEN t.category ELSE S_Uncategorized

Keys(items) == {items[i].k : i \in 1..Len(items)}

\* C11: the items of the mapping come in non-increasing order of sum, and
\* items with equal sums in ascending order of the lower-cased name.
C11_OrderedBySumThenName ==
    out.called =>
        \A i, j \in 1..Len(out.items) :
            i < j =>
                /\ out.items[i].v >= out.items[j].v
                /\ out.items[i].v = out.items[j].v =>
                      ~str_lt(lower(out.items[j].k), lower(out.items[i].k))

\* three categories were summed: the largest sum comes first, then two equal
\* sums with food before Rent
C11_Witness ==
    /\ out.called
    /\ Len(out.items) = 3
    /\ out.items[1].v > out.items[2].v
    /\ out.items[2].v = out.items[3].v
    /\ out.items[2].k = S_food
    /\ out.items[3].k = S_Rent

\* C12: the keys are the distinct category labels of the records that pass
\* the type filter, none twice, Food and food apart; each key maps to the sum
\* of the amounts of the passing records with that label.
C12_KeysAreLabels ==
    out.called =>
        /\ Keys(out.items) = {Label(inp.l[i]) : i \in Passing(inp.l, inp.ttype)}
        /\ \A i, j \in 1..Len(out.items) : i # j => out.items[i].k # out.items[j].k
        /\ \A i \in 1..Len(out.items) :
              out.items[i].v =
                  SumOver(inp.l, {j \in Passing(inp.l, inp.ttype) :
                                     Label(inp.l[j]) = out.items[i].k})

\* with the filter expense, an income record was left out and Food and food
\* were summed apart
C12_Witness ==
    /\ out.called
    /\ inp.ttype = S_expense
    /\ Passing(inp.l, inp.ttype) # 1..Len(inp.l)
    /\ Keys(out.items) = {S_Food, S_food}

\* C13: a record without a category and a record whose category is empty are
\* both summed under Uncategorized, and the mapping has no empty key.
C13_EmptyIsUncategorized ==
    out.called =>
        /\ <<>> \notin Keys(out.items)
        /\ \A i \in 1..Len(out.items) :
              out.items[i].k = S_Uncategorized =>
                  out.items[i].v =
                      SumOver(inp.l, {j \in Passing(inp.l, inp.ttype) :
                                         Label(inp.l[j]) \in {<<>>, S_Uncategorized}})

\* the date of t begins with the four digits of y, a hyphen, the two digits
\* of m and a hyphen
InMonth(t, y, m) ==
    /\ "date" \in DOMAIN t
    /\ Len(t.date) >= 8
    /\ AllDigits(SubSeq(t.date, 1, 4)) /\ int_of(SubSeq(t.date, 1, 4)) = y
    /\ t.date[5] = "-"
    /\ AllDigits(SubSeq(t.date, 6, 7)) /\ int_of(SubSeq(t.date, 6, 7)) = m
    /\ t.date[8] = "-"

\* the records among the first n of l that are in the month, in order
RECURSIVE Kept(_, _, _, _)
Kept(l, n, y, m) ==
    IF n = 0 THEN <<>>
    ELSE Kept(l, n - 1, y, m) \o (IF InMonth(l[n], y, m) THEN <<l[n]>> ELSE <<>>)

\* C14: filter_month returns, in their order, exactly the records whose date
\* begins with YYYY-MM- and leaves its argument as it was.
C14_FilterMonthByPrefix ==
    /\ [](out.called => out.v = Kept(inp.l, Len(inp.l), inp.year, inp.month))
    /\ [][inp' = inp]_vars

\* for (2024, 3): two records of March were kept in their order and the one
\* dated 2024-3-01 between them was left out
C14_Witness ==
    /\ out.called
    /\ inp.year = 2024 /\ inp.month = 3
    /\ Len(inp.l) = 3
    /\ DateField(inp.l[1]) = D_2024_03_15
    /\ DateField(inp.l[2]) = D_2024_3_01
    /\ DateField(inp.l[3]) = D_2024_03_05
    /\ out.v = <<inp.l[1], inp.l[3]>>

Dated(l, d) == {i \in 1..Len(l) : "date" \in DOMAIN l[i] /\ l[i].date = d}

Returns(t) == \E i \in 1..Len(out.v) : out.v[i] = t

\* C15 as stated: for (2024, 3) a record dated 2024-03 is returned.
C15_MatchesDateWithoutDay ==
    (out.called /\ inp.year = 2024 /\ inp.month = 3) =>
        \A i \in Dated(inp.l, D_2024_03) : Returns(inp.l[i])

\* C15: for (2024, 3) a record dated 2024-03 is not returned, the prefix
\* 2024-03- being longer than the date; a record dated 2024-03- with no day
\* after the hyphen is returned.
C15_DateWithoutDayNotMatched ==
    (out.called /\ inp.year = 2024 /\ inp.month = 3) =>
        /\ \A i \in Dated(inp.l, D_2024_03) : ~Returns(inp.l[i])
        /\ \A i \in Dated(inp.l, D_2024_03_) : Returns(inp.l[i])

\* for (2024, 3), of a record dated 2024-03 and one dated 2024-03- only the
\* second was returned
C15_Witness ==
    /\ out.called
    /\ inp.year = 2024 /\ inp.month = 3
    /\ Dated(inp.l, D_2024_03) # {}
    /\ Dated(inp.l, D_2024_03_) # {}
    /\ Len(out.v) = 1
    /\ DateField(out.v[1]) = D_2024_03_

\* the thresholds, each with the points it is worth
Thresholds == {<<0, 1>>, <<100, 1>>, <<500, 1>>, <<1000, 1>>, <<10000, 6>>}

RECURSIVE PointsSum(_)
PointsSum(S) ==
    IF S = {} THEN 0
    ELSE LET e == CHOOSE x \in S : TRUE IN e[2] + PointsSum(S \ {e})

\* C16: points is the sum of the points of the thresholds net is strictly
\* above (1 for 0, 100, 500 and 1000, 6 for 10000); the label is Perfect for
\* 10 points, Average from 5 points, Poor below.
C16_PointsAndLabel ==
    out.called =>
        /\ out.points = PointsSum({e \in Thresholds : inp > e[1]})
        /\ out.label = (CASE out.points = 10 -> "Perfect"
                          [] out.points \in 5..9 -> "Average"
                          [] OTHER -> "Poor")
        /\ inp = 0 => out.points = 0
        /\ inp = 150 => out.points = 2 /\ out.label = "Poor"
        /\ inp = 600 => out.points = 3 /\ out.label = "Poor"
        /\ inp = 1500 => out.points = 4 /\ out.label = "Poor"
        /\ inp = 15000 => out.points = 10 /\ out.label = "Perfect"

\* a net equal to the threshold 500 was rated with the points of the two
\* thresholds below it
C16_Witness == out.called /\ inp = 500 /\ out.points = 2 /\ out.label = "Poor"

\* C20: points is one of 0, 1, 2, 3, 4, 10; the label is Perfect above 10000
\* and Poor up to 10000, never Average.
C20_NeverAverage ==
    out.called =>
        /\ out.points \in {0, 1, 2, 3, 4, 10}
        /\ out.label # "Average"
        /\ out.label = "Perfect" <=> inp > 10000
        /\ out.label = "Poor" <=> inp <= 10000

\* a net of exactly 10000 was rated Poor with 4 points, and the next one up
\* is Perfect
C20_Witness ==
    /\ out.called
    /\ inp = 10000
    /\ out.points = 4
    /\ out.label = "Poor"
    /\ rating_from_net(inp + 1).label = "Perfect"

\* the expenses of March 2024 in exactly the category cat
SpentOn(l, cat) ==
    SumOver(l, {i \in 1..Len(l) :
                   /\ l[i].type = S_expense
                   /\ l[i].category = cat
                   /\ InMonth(l[i], 2024, 3)})

\* the limit is a number above 0
PositiveLimit(v) == float_of(v).ok /\ float_of(v).x > 0

\* C17: a budget with a positive limit gets an over warning when the month's
\* expenses of its category are at least the limit, a near warning when they
\* are at least 80 percent of it and below it, and none otherwise; a budget
\* whose limit is not positive or not a number gets none, without an error.
C17_BudgetWarnings ==
    out.called =>
        /\ ~out.raised
        /\ DOMAIN out.warnings \subseteq DOMAIN inp.budgets
        /\ \A cat \in DOMAIN inp.budgets :
              LET limit == float_of(inp.budgets[cat]).x
                  spent == SpentOn(inp.l, cat)
                  kind == IF cat \in DOMAIN out.warnings THEN out.warnings[cat] ELSE "none"
              IN  IF ~PositiveLimit(inp.budgets[cat]) THEN kind = "none"
                  ELSE /\ kind = "OVER" <=> spent * 100 >= 100 * limit
                       /\ kind = "Near" <=> (80 * limit <= spent * 100 /\ spent * 100 < 100 * limit)
                       /\ kind \in {"OVER", "Near", "none"}
                       /\ (limit = 100 /\ spent = 85) => kind = "Near"
                       /\ (limit = 100 /\ spent = 120) => kind = "OVER"
                       /\ (limit = 100 /\ spent = 50) => kind = "none"

\* with limits of 100: Food spent exactly 80 and is near, Rent spent 90 and is
\* near too
C17_Witness ==
    /\ out.called
    /\ DOMAIN inp.budgets = {S_Food, S_Rent}
    /\ PositiveLimit(inp.budgets[S_Food])
    /\ SpentOn(inp.l, S_Food) = 80
    /\ SpentOn(inp.l, S_Rent) = 90
    /\ out.warnings = [c \in {S_Food, S_Rent} |-> "Near"]

\* the entry the last prompt returned is the stored PIN
EntryMatches == inp # <<>> /\ inp.ok /\ hash_pin(inp.pin) = settings.pin_hash

\* C18: with a PIN stored, at most three prompts are shown; the session goes
\* on to load the ledger only after an entry that matches the stored hash, and
\* it exits on a cancelled prompt or on the third wrong entry.
C18_ThreePinAttempts ==
    /\ [](attempts <= 3)
    /\ [](pc = "prompt" => truthy(settings.pin_hash) /\ attempts < 3)
    /\ []((pc = "load" /\ truthy(settings.pin_hash)) => attempts \in 1..3 /\ EntryMatches)
    /\ [](pc = "exited" => ~EntryMatches /\ (inp.ok => attempts = 3))
    /\ [][pc' = "load" => (pc = "prompt" \/ (pc = "start" /\ ~truthy(settings'.pin_hash)))]_vars
    /\ [][txs' # txs /\ pc' = "idle" /\ pc # "idle" => pc = "load"]_vars
    /\ [][pc = "exited" => pc' = "start"]_vars

\* after two wrong entries the third one matched and the session goes on
C18_Witness ==
    /\ pc = "load"
    /\ truthy(settings.pin_hash)
    /\ attempts = 3
    /\ EntryMatches

\* C19: with two sessions on the same storage, a save replaces the ledger
\* file by the complete ledger of the session that saves, whatever the file
\* held and whatever the other session holds; with both sessions at rest the
\* file is the complete ledger of one of them, never a mixture.
C19_LastWriteWins ==
    /\ [][fs'[DATA_FILE] # fs[DATA_FILE] =>
            /\ pc = "replace"
            /\ sv.path = DATA_FILE
            /\ Holds(fs'[DATA_FILE], txs)]_vars
    /\ []((pc = "idle" /\ peer.pc = "idle" /\ ~MissingOrMalformed(fs[DATA_FILE])) =>
            Holds(fs[DATA_FILE], txs) \/ Holds(fs[DATA_FILE], peer.txs))

\* both sessions added a record and saved; the file is the ledger of the one
\* that saved last, and the record the other one saved is not in it
C19_Witness ==
    /\ pc = "idle" /\ last = [op |-> "add_tx", outcome |-> "ok", bad |-> "none"]
    /\ peer.pc = "idle" /\ peer.last = last
    /\ Holds(fs[DATA_FILE], txs)
    /\ \E i \in 1..Len(peer.txs) : \A j \in 1..Len(txs) : txs[j] # peer.txs[i]

\* the first n records of l without those at the positions in gone, in order
RECURSIVE Rest(_, _, _)
Rest(l, n, gone) ==
    IF n = 0 THEN <<>>
    ELSE Rest(l, n - 1, gone) \o (IF n \in gone THEN <<>> ELSE <<l[n]>>)

====
